---- MODULE Spec2Model ----
(***************************************************************************)
(* Model of viking/xgb conn.go: Conn.connect and Conn.dial, the X11        *)
(* connection setup handshake.  Strings are sequences of one-character     *)
(* strings, byte slices are sequences of integers in 0..255.               *)
(***************************************************************************)
EXTENDS Integers, Sequences, FiniteSets, TLC

\* ---------------------------------------------------------------- bounds
MaxLen == 3          \* longest display string enumerated exhaustively
MaxRoots == 2        \* largest screen list the setup decoder returns
MaxSeed == 1         \* body contents are drawn from MaxSeed+1 byte patterns

\* ------------------------------------------------------------- alphabets
Alphabet == {":", "/", ".", "0", "1", "-", "h"}

DigitVal == [ch \in {"0", "1", "2", "3", "4", "5", "6", "7", "8", "9"} |->
               CASE ch = "0" -> 0 [] ch = "1" -> 1 [] ch = "2" -> 2
                 [] ch = "3" -> 3 [] ch = "4" -> 4 [] ch = "5" -> 5
                 [] ch = "6" -> 6 [] ch = "7" -> 7 [] ch = "8" -> 8
                 [] ch = "9" -> 9]

DigitChar == <<"0", "1", "2", "3", "4", "5", "6", "7", "8", "9">>

RECURSIVE StringsUpTo(_)
StringsUpTo(n) ==
    IF n = 0 THEN {<<>>}
    ELSE LET prev == StringsUpTo(n - 1)
         IN prev \cup {Append(s, ch) : s \in {t \in prev : Len(t) = n - 1},
                                        ch \in Alphabet}

\* Display strings longer than MaxLen that exercise the documented forms.
DisplayTable ==
    { <<":", "0", ".", "1">>,
      <<":", "1", ".", "2">>,
      <<":", "0", ".", "-", "1">>,
      <<":", "0", ".", "7">>,
      <<"h", "o", "s", "t", ":", "0">>,
      <<"h", "o", "s", "t", ":", "0", ".", "1">>,
      <<"h", "o", "s", "t", ":", "0", "/", "1">>,
      <<"u", "n", "i", "x", "/", "h", "o", "s", "t", ":", "0">>,
      <<"t", "c", "p", "/", ":", "0">>,
      <<"/", "t", "m", "p", "/", "s", ":", "0">>,
      <<"/", "t", "m", "p", "/", "s", ":", "0", ".", "1">>,
      <<"h", ":", "0", "0", "7">>,
      <<"h", ":", "+", "1">>,
      <<"/", "s", ":", "-", "0">>,
      <<"h", ":", "0", ".", "x">>,
      <<"b", "o", "g", "u", "s">> }

Displays == StringsUpTo(MaxLen) \cup DisplayTable

EnvValues == {<<>>, <<":", "1">>, <<"x">>}

\* The environment values tried under a non-empty argument, which must not
\* read them.
EnvSeen == {<<":", "1">>}

\* ------------------------------------------------------ string primitives
\* strings.LastIndex for a one-character separator; 0-based, -1 when absent.
LastIndex(s, ch) ==
    IF \E i \in 1..Len(s) : s[i] = ch
    THEN (CHOOSE i \in 1..Len(s) :
             s[i] = ch /\ \A j \in (i + 1)..Len(s) : s[j] # ch) - 1
    ELSE -1

\* Go slice expression s[lo:hi]; the caller checks SliceOK first.
Slice(s, lo, hi) == SubSeq(s, lo + 1, hi)

\* A Go slice expression s[lo:hi] panics unless 0 <= lo <= hi <= len(s).
SliceOK(s, lo, hi) == 0 <= lo /\ lo <= hi /\ hi <= Len(s)

RECURSIVE DecVal(_)
DecVal(s) ==
    IF Len(s) = 0 THEN 0
    ELSE DecVal(SubSeq(s, 1, Len(s) - 1)) * 10 + DigitVal[s[Len(s)]]

\* strconv.Atoi: optional sign, then one or more decimal digits.
Atoi(s) ==
    LET signed == Len(s) > 0 /\ s[1] \in {"+", "-"}
        digits == IF signed THEN Tail(s) ELSE s
    IN IF Len(digits) = 0 \/ \E i \in 1..Len(digits) : digits[i] \notin DOMAIN DigitVal
       THEN [err |-> TRUE, val |-> 0]
       ELSE [err |-> FALSE,
             val |-> IF signed /\ s[1] = "-" THEN 0 - DecVal(digits)
                     ELSE DecVal(digits)]

\* strconv.Itoa for n >= 0.
RECURSIVE Itoa(_)
Itoa(n) ==
    IF n < 10 THEN <<DigitChar[n + 1]>>
    ELSE Append(Itoa(n \div 10), DigitChar[(n % 10) + 1])

X11Port == 6000

UnixDir == <<"/", "t", "m", "p", "/", ".", "X", "1", "1", "-", "u", "n", "i", "x", "/", "X">>

TcpName == <<"t", "c", "p">>

UnixName == <<"u", "n", "i", "x">>

\* ------------------------------------------------------------------ dial
\* The state dial leaves behind: the receiver's fields, dial's locals, the
\* error it returns before net.Dial ("" when it reaches net.Dial) and the
\* network and address it hands to net.Dial.
DialResult(cc, protocol, socket, dispnum, err, network, address) ==
    [c |-> cc, protocol |-> protocol, socket |-> socket, dispnum |-> dispnum,
     err |-> err, network |-> network, address |-> address]

\* conn.go:147-157, the choice of network and address.
DialTargetNoHostCheck(socket, host, protocol, display, dispnum) ==
    IF Len(socket) # 0
    THEN [network |-> UnixName, address |-> socket \o <<":">> \o display]
    ELSE [network |-> IF protocol = <<>> THEN TcpName ELSE protocol,
          address |-> host \o <<":">> \o Itoa(X11Port + dispnum)]

DialTarget(socket, host, protocol, display, dispnum) ==
    IF Len(socket) # 0
    THEN [network |-> UnixName, address |-> socket \o <<":">> \o display]
    ELSE IF Len(host) # 0
    THEN [network |-> IF protocol = <<>> THEN TcpName ELSE protocol,
          address |-> host \o <<":">> \o Itoa(X11Port + dispnum)]
    ELSE [network |-> UnixName, address |-> UnixDir \o display]

\* conn.go:126-145, from the display part to the parsed numbers.
dialNumbers(cc, display0, display, protocol, socket) ==
    LET dotIdx == LastIndex(display, ".")
        dstr == IF dotIdx < 0 THEN display ELSE Slice(display, 0, dotIdx)
        scr == IF dotIdx < 0 THEN <<>>
               ELSE Slice(display, dotIdx + 1, Len(display))
        c1 == [cc EXCEPT !.display = dstr]
        dn == Atoi(dstr)
        sn == Atoi(scr)
        c2 == IF Len(scr) # 0 THEN [c1 EXCEPT !.defaultScreen = sn.val] ELSE c1
    IN IF dn.err \/ dn.val < 0
       THEN DialResult(c1, protocol, socket, dn.val, "MalformedDisplaySpec", <<>>, <<>>)
       ELSE IF Len(scr) # 0 /\ sn.err
       THEN DialResult(c2, protocol, socket, dn.val, "MalformedDisplaySpec", <<>>, <<>>)
       ELSE LET t == DialTarget(socket, c2.host, protocol, c2.display, dn.val)
            IN DialResult(c2, protocol, socket, dn.val, "", t.network, t.address)

\* conn.go:121-124, the display part.
dialDisplayPart(cc, display0, colonIdx, protocol, socket) ==
    LET display == Slice(display0, colonIdx + 1, Len(display0))
    IN IF Len(display) = 0
       THEN DialResult(cc, protocol, socket, 0, "MalformedDisplaySpec", <<>>, <<>>)
       ELSE dialNumbers(cc, display0, display, protocol, socket)

\* The range strings.LastIndex(display, "/") searches at conn.go:112.
SlashSearch(display, colonIdx) == display

\* conn.go:93, whether dial reads the DISPLAY environment variable.
ConsultsEnvAlways(arg) == TRUE

ConsultsEnv(arg) == Len(arg) = 0

\* conn.go:92-145, dial up to (not including) net.Dial.
dialParse(cc, arg, envDisplay) ==
    LET display0 == IF ConsultsEnv(arg) THEN envDisplay ELSE arg
        colonIdx == LastIndex(display0, ":")
    IN IF Len(display0) = 0
       THEN DialResult(cc, <<>>, <<>>, 0, "EmptyDisplaySpec", <<>>, <<>>)
       ELSE IF colonIdx < 0
       THEN DialResult(cc, <<>>, <<>>, 0, "MalformedDisplaySpec", <<>>, <<>>)
       ELSE IF display0[1] = "/"
       THEN dialDisplayPart(cc, display0, colonIdx, <<>>,
                            Slice(display0, 0, colonIdx))
       ELSE LET slashIdx == LastIndex(SlashSearch(display0, colonIdx), "/")
            IN IF slashIdx >= 0
               THEN IF SliceOK(display0, slashIdx + 1, colonIdx)
                    THEN dialDisplayPart(
                             [cc EXCEPT !.host = Slice(display0, slashIdx + 1, colonIdx)],
                             display0, colonIdx, Slice(display0, 0, slashIdx), <<>>)
                    ELSE DialResult(cc, Slice(display0, 0, slashIdx), <<>>, 0,
                                    "Panic", <<>>, <<>>)
               ELSE dialDisplayPart([cc EXCEPT !.host = Slice(display0, 0, colonIdx)],
                                    display0, colonIdx, <<>>, <<>>)

\* ------------------------------------------------------------ byte codec
Byte == 256

Word == 65536

\* Little-endian 16-bit encode, as announced by the 0x6c byte-order marker.
Put16(v) == <<(v % Word) % Byte, (v % Word) \div Byte>>

\* Little-endian 16-bit decode of b[off], b[off+1] (off is 0-based).
Get16(b, off) == b[off + 1] + Byte * b[off + 2]

\* n brought up to a multiple of 4: its callers at conn.go:41 and conn.go:50
\* use the result as the padded length of a field ("padded with zero bytes
\* up to a multiple of 4").
pad(n) == ((n + 3) \div 4) * 4

Zeros(n) == [i \in 1..n |-> 0]

\* Go copy(dst[off:], src): copies min(len(dst)-off, len(src)) bytes.
CopyAt(dst, off, src) ==
    [i \in 1..Len(dst) |->
        IF i > off /\ i - off <= Len(src) THEN src[i - off] ELSE dst[i]]

MitName == <<77, 73, 84, 45, 77, 65, 71, 73, 67, 45, 67, 79, 79, 75, 73, 69, 45, 49>>

XdmName == <<88, 68, 77, 45, 65, 85, 84, 72, 79, 82, 73, 90, 65, 84, 73, 79, 78, 45, 49>>

CookieLen == 16

ProtoMajor == 11

ProtoMinor == 0

\* ------------------------------------------------- external collaborators
\* readAuthority: an error, or a (name, data) pair of any shape.
AuthNames == {MitName, XdmName, <<>>}

AuthDataLens == {0, CookieLen, CookieLen + 1}

AuthData(n) == [i \in 1..n |-> (160 + i) % Byte]

AuthorityResults ==
    {[err |-> TRUE, name |-> MitName, data |-> AuthData(CookieLen)]}
    \cup {[err |-> FALSE, name |-> n, data |-> AuthData(k)] :
             n \in AuthNames, k \in AuthDataLens}

\* What the server may put in the 8-byte response header.
Codes == {0, 1, 2}

ReasonLens == {0, 5, 250}

Majors == {10, 11}

Minors == {0, 1}

DataLens == {0, 1, 2, 63}

Headers ==
    {<<code, rl>> \o Put16(ma) \o Put16(mi) \o Put16(dl) :
        code \in Codes, rl \in ReasonLens, ma \in Majors, mi \in Minors,
        dl \in DataLens}

Bodies(n) == {[i \in 1..n |-> (97 + 7 * s + i) % Byte] : s \in 0..MaxSeed}

\* ------------------------------------------------------ connect's checks
\* conn.go:37
ShapeRejectedAlways(noauthFlag, name, data) ==
    name # MitName \/ Len(data) # CookieLen

ShapeRejectedBoth(noauthFlag, name, data) ==
    ~noauthFlag /\ (name # MitName /\ Len(data) # CookieLen)

ShapeRejected(noauthFlag, name, data) ==
    ~noauthFlag /\ (name # MitName \/ Len(data) # CookieLen)

\* conn.go:41-50
HelloDataAfterName(name, data) ==
    LET n == 12 + pad(Len(name)) + pad(Len(data))
        b0 == CopyAt(Zeros(n), 0,
                     <<108, 0>> \o Put16(ProtoMajor) \o Put16(ProtoMinor)
                       \o Put16(Len(name)) \o Put16(Len(data)) \o Put16(0))
        b1 == CopyAt(b0, 12, name)
    IN CopyAt(b1, 12 + Len(name), data)

HelloUnpadded(name, data) ==
    LET n == 12 + Len(name) + Len(data)
        b0 == CopyAt(Zeros(n), 0,
                     <<108, 0>> \o Put16(ProtoMajor) \o Put16(ProtoMinor)
                       \o Put16(Len(name)) \o Put16(Len(data)) \o Put16(0))
        b1 == CopyAt(b0, 12, name)
    IN CopyAt(b1, 12 + Len(name), data)

Hello(name, data) ==
    LET n == 12 + pad(Len(name)) + pad(Len(data))
        b0 == CopyAt(Zeros(n), 0,
                     <<108, 0>> \o Put16(ProtoMajor) \o Put16(ProtoMinor)
                       \o Put16(Len(name)) \o Put16(Len(data)) \o Put16(0))
        b1 == CopyAt(b0, 12, name)
    IN CopyAt(b1, 12 + pad(Len(name)), data)

\* conn.go:65
VersionMismatchNever(major, minor) == FALSE

VersionMismatchMajorOnly(major, minor) == major # ProtoMajor

VersionMismatch(major, minor) == major # ProtoMajor \/ minor # ProtoMinor

\* conn.go:70
BufLenNoHead(dataLen) == dataLen * 4

BufLen(dataLen) == dataLen * 4 + 8

\* conn.go:77, the upper bound 8+reasonLen computed in the byte type.
ReasonEnd(reasonLen) == (8 + reasonLen) % Byte

\* conn.go:28-30, the writes to os.Stderr after the lookup.
WarnWritesOne(failed) == IF failed THEN 1 ELSE 0

WarnWrites(failed) == IF failed THEN 2 ELSE 0

\* conn.go:56 and conn.go:72, io.ReadFull reports an error when it got k of
\* the n bytes asked for and k < n.
ReadFailedIgnored(k, n) == FALSE

ReadFailed(k, n) == k < n

\* conn.go:84-86
ClampScreen(screen, roots) == IF screen >= roots THEN 0 ELSE screen

\* ----------------------------------------------------------------- state
VARIABLES
    arg,        \* the display argument of connect
    env,        \* os.Getenv("DISPLAY")
    pc,         \* position in connect
    c,          \* the Conn: host, display, defaultScreen, conn, roots
    protocol,   \* dial's local
    socket,     \* dial's local
    dispnum,    \* dial's local
    noauth,     \* connect's local
    authName,   \* connect's local
    authData,   \* connect's local
    head,       \* connect's local: the 8 header bytes
    buf,        \* connect's local: the buffer in use
    dials,      \* net.Dial calls so far: <<network, address, ok>>
    sent,       \* bytes written to the transport
    wire,       \* bytes the transport has delivered to connect
    stderr,     \* number of writes to os.Stderr
    decoded,    \* buffers handed to ReadSetupInfo
    trace,      \* the external steps taken, in order
    outcome,    \* "" while running, else how connect ended
    errArg      \* the value the returned error carries

vars == <<arg, env, pc, c, protocol, socket, dispnum, noauth, authName,
          authData, head, buf, dials, sent, wire, stderr, decoded, trace,
          outcome, errArg>>

\* A Conn as new(Conn) leaves it.
ZeroConn == [host |-> <<>>, display |-> <<>>, defaultScreen |-> 0,
             conn |-> "nil", roots |-> 0]

Init ==
    /\ arg \in Displays
    /\ env \in IF arg = <<>> THEN EnvValues ELSE EnvSeen
    /\ pc = "dial"
    /\ c = ZeroConn
    /\ protocol = <<>> /\ socket = <<>> /\ dispnum = 0
    /\ noauth = FALSE /\ authName = <<>> /\ authData = <<>>
    /\ head = <<>> /\ buf = <<>>
    /\ dials = <<>> /\ sent = <<>> /\ wire = <<>> /\ stderr = 0
    /\ decoded = <<>> /\ trace = <<>>
    /\ outcome = "" /\ errArg = <<>>

ReturnAndRetry(kind, detail) ==
    /\ pc' = IF kind = "Accepted" THEN "done" ELSE pc
    /\ outcome' = kind
    /\ errArg' = detail

Return(kind, detail) ==
    /\ pc' = "done"
    /\ outcome' = kind
    /\ errArg' = detail

\* conn.go:20-23 with conn.go:92-163
Dial ==
    /\ pc = "dial"
    /\ LET r == dialParse(c, arg, env)
           display0 == IF ConsultsEnv(arg) THEN env ELSE arg
           getenv == IF ConsultsEnv(arg) THEN <<"getenv">> ELSE <<>>
       IN /\ protocol' = r.protocol
          /\ socket' = r.socket
          /\ dispnum' = r.dispnum
          /\ IF r.err # ""
             THEN /\ c' = r.c
                  /\ dials' = dials
                  /\ trace' = trace \o getenv \o <<"parse">>
                  /\ Return(r.err, display0)
             ELSE \E ok \in BOOLEAN :
                  /\ dials' = Append(dials, <<r.network, r.address, ok>>)
                  /\ trace' = trace \o getenv \o <<"parse", "dial">>
                  /\ IF ok
                     THEN /\ c' = [r.c EXCEPT !.conn = "open"]
                          /\ pc' = "auth"
                          /\ UNCHANGED <<outcome, errArg>>
                     ELSE /\ c' = r.c
                          /\ Return("ConnectError", display0)
    /\ UNCHANGED <<arg, env, noauth, authName, authData, head, buf, sent,
                   wire, stderr, decoded>>

\* conn.go:25-39
Authority ==
    /\ pc = "auth"
    /\ \E r \in AuthorityResults :
          LET name == IF r.err THEN <<>> ELSE r.name
              data == IF r.err THEN <<>> ELSE r.data
          IN /\ noauth' = r.err
             /\ authName' = name
             /\ authData' = data
             /\ stderr' = stderr + WarnWrites(r.err)
             /\ IF ShapeRejected(r.err, name, data)
                THEN Return("UnsupportedAuthProtocol", name)
                ELSE pc' = "write" /\ UNCHANGED <<outcome, errArg>>
    /\ trace' = Append(trace, "lookup")
    /\ UNCHANGED <<arg, env, c, protocol, socket, dispnum, head, buf, dials,
                   sent, wire, decoded>>

\* conn.go:41-53
WriteHello ==
    /\ pc = "write"
    /\ buf' = Hello(authName, authData)
    /\ trace' = Append(trace, "write")
    /\ \/ /\ sent' = sent \o buf'
          /\ pc' = "head"
          /\ UNCHANGED <<outcome, errArg>>
       \/ \E k \in {0, Len(buf') - 1} :
          /\ sent' = sent \o SubSeq(buf', 1, k)
          /\ Return("TransportFailed", "write")
    /\ UNCHANGED <<arg, env, c, protocol, socket, dispnum, noauth, authName,
                   authData, head, dials, wire, stderr, decoded>>

\* conn.go:55-68
ReadHeader ==
    /\ pc = "head"
    /\ trace' = Append(trace, "readHeader")
    /\ \E h \in Headers, k \in {0, 4, 8} :
          LET got == SubSeq(h, 1, k)
              hd == CopyAt(Zeros(8), 0, got)
          IN /\ wire' = wire \o got
             /\ head' = hd
             /\ IF ReadFailed(k, 8)
                THEN Return("TransportFailed", "header")
                ELSE IF VersionMismatch(Get16(hd, 2), Get16(hd, 4))
                THEN Return("VersionMismatch", <<Get16(hd, 2), Get16(hd, 4)>>)
                ELSE pc' = "body" /\ UNCHANGED <<outcome, errArg>>
    /\ UNCHANGED <<arg, env, c, protocol, socket, dispnum, noauth, authName,
                   authData, buf, dials, sent, stderr, decoded>>

\* conn.go:70-74
ReadBody ==
    /\ pc = "body"
    /\ trace' = Append(trace, "readBody")
    /\ LET n == BufLen(Get16(head, 6))
           b0 == CopyAt(Zeros(n), 0, head)
       IN \E body \in Bodies(Get16(head, 6) * 4) :
          \E k \in {0, Len(body) - 1, Len(body)} \cap 0..Len(body) :
             /\ wire' = wire \o SubSeq(body, 1, k)
             /\ buf' = CopyAt(b0, 8, SubSeq(body, 1, k))
             /\ IF ReadFailed(k, Len(body))
                THEN Return("TransportFailed", "body")
                ELSE pc' = "decide" /\ UNCHANGED <<outcome, errArg>>
    /\ UNCHANGED <<arg, env, c, protocol, socket, dispnum, noauth, authName,
                   authData, head, dials, sent, stderr, decoded>>

\* conn.go:76-80
Refuse ==
    /\ pc = "decide"
    /\ head[1] = 0
    /\ IF SliceOK(buf, 8, ReasonEnd(head[2]))
       THEN Return("ConnectionRefused", Slice(buf, 8, ReasonEnd(head[2])))
       ELSE Return("Panic", <<>>)
    /\ UNCHANGED <<arg, env, c, protocol, socket, dispnum, noauth, authName,
                   authData, head, buf, dials, sent, wire, stderr, decoded,
                   trace>>

\* conn.go:82-88
Accept ==
    /\ pc = "decide"
    /\ head[1] # 0
    /\ \E roots \in 0..MaxRoots :
          c' = [c EXCEPT !.roots = roots,
                         !.defaultScreen = ClampScreen(c.defaultScreen, roots)]
    /\ decoded' = Append(decoded, buf)
    /\ trace' = Append(trace, "decode")
    /\ Return("Accepted", <<>>)
    /\ UNCHANGED <<arg, env, protocol, socket, dispnum, noauth, authName,
                   authData, head, buf, dials, sent, wire, stderr>>

Next ==
    \/ Dial
    \/ Authority
    \/ WriteHello
    \/ ReadHeader
    \/ ReadBody
    \/ Refuse
    \/ Accept

Spec == Init /\ [][Next]_vars

\* ------------------------------------------------- what the server sent
HeaderDelivered == Len(wire) >= 8

StatusCode == wire[1]

ReasonLength == wire[2]

Major == Get16(wire, 2)

Minor == Get16(wire, 4)

BodyUnits == Get16(wire, 6)

BodyDelivered == HeaderDelivered /\ Len(wire) = 8 + 4 * BodyUnits

Body == SubSeq(wire, 9, Len(wire))

Version11 == Major = 11 /\ Minor = 0

LookupDone == \E i \in 1..Len(trace) : trace[i] = "lookup"

HelloWritten ==
    /\ \E i \in 1..Len(trace) : trace[i] = "write"
    /\ ~(outcome = "TransportFailed" /\ errArg = "write")

TransportOpened == \E i \in 1..Len(dials) : dials[i][3]

\* The display string connect parses, its host part and its display part.
Raw == IF Len(arg) = 0 THEN env ELSE arg

HostPart == SubSeq(Raw, 1, LastIndex(Raw, ":"))

DisplayPart == SubSeq(Raw, LastIndex(Raw, ":") + 2, Len(Raw))

Has(s, ch) == \E i \in 1..Len(s) : s[i] = ch

\* ------------------------------------------------------------------- C1
\* C1: once a header whose version is not 11.0 has been read, connect has
\* failed with VersionMismatch(major, minor), whatever the status code,
\* reason length and body units are, and exactly the 8 header bytes have
\* been read from the transport.
C1_VersionMismatchStopsAtHeader ==
    (HeaderDelivered /\ (Major # 11 \/ Minor # 0)) =>
        /\ pc = "done"
        /\ outcome = "VersionMismatch"
        /\ errArg = <<Major, Minor>>
        /\ Len(wire) = 8

C1_Witness ==
    /\ outcome = "VersionMismatch"
    /\ Major = 11 /\ Minor = 1
    /\ StatusCode = 1 /\ BodyUnits = 63 /\ ReasonLength = 250

\* ------------------------------------------------------------------- C2
\* C2: when connect has returned after a version 11.0 response with status
\* code 0 whose body was fully delivered, it has failed with
\* ConnectionRefused carrying the first reasonLength bytes of the body, for
\* every reasonLength and bodyUnits.
C2_RefusedWithReason ==
    (pc = "done" /\ BodyDelivered /\ Version11 /\ StatusCode = 0) =>
        /\ outcome = "ConnectionRefused"
        /\ ReasonLength <= Len(Body) => errArg = SubSeq(Body, 1, ReasonLength)

\* ------------------------------------------------------------------- C3
\* C3: connect has returned success exactly when the transport was opened,
\* the hello written, a version 11.0 header with non-zero status read and
\* the full body read; then the setup decoder ran exactly once, on one
\* buffer of 8 + 4*bodyUnits bytes that is the header followed by the body;
\* otherwise the decoder never ran.
C3_AcceptedExactly ==
    pc = "done" =>
        /\ (outcome = "Accepted") <=>
              /\ TransportOpened /\ c.conn = "open"
              /\ HelloWritten
              /\ BodyDelivered /\ Version11 /\ StatusCode # 0
        /\ outcome = "Accepted" =>
              /\ Len(decoded) = 1
              /\ Len(decoded[1]) = 8 + 4 * BodyUnits
              /\ SubSeq(decoded[1], 1, 8) = SubSeq(wire, 1, 8)
              /\ decoded[1] = wire
        /\ outcome # "Accepted" => decoded = <<>>

C3_Witness ==
    /\ outcome = "Accepted"
    /\ StatusCode = 2 /\ BodyUnits = 63
    /\ Len(decoded) = 1 /\ Len(decoded[1]) = 260

\* ------------------------------------------------------------------- C4
\* C4: when the authority lookup failed, connect does not fail with
\* UnsupportedAuthProtocol, the credential in use is empty, the hello's two
\* length fields are 0, and connect succeeds once the server has answered
\* with version 11.0, a non-zero status and the full body.
C4_LookupFailureFallsBack ==
    (LookupDone /\ noauth) =>
        /\ outcome # "UnsupportedAuthProtocol"
        /\ authName = <<>> /\ authData = <<>>
        /\ pc \notin {"auth", "write"} =>
              (Len(sent) >= 10 => Get16(sent, 6) = 0 /\ Get16(sent, 8) = 0)
        /\ HelloWritten => Len(sent) >= 12
        /\ (pc = "done" /\ HelloWritten /\ BodyDelivered /\ Version11
               /\ StatusCode # 0) => outcome = "Accepted"

C4_Witness ==
    /\ noauth /\ LookupDone
    /\ outcome = "Accepted"
    /\ Get16(sent, 6) = 0 /\ Get16(sent, 8) = 0

\* ------------------------------------------------------------------- C5
\* C5: when the lookup succeeded with a name other than MIT-MAGIC-COOKIE-1
\* or with data not 16 bytes long, connect has failed with
\* UnsupportedAuthProtocol(name) and nothing was written to or read from
\* the transport; and whenever bytes were written after a successful
\* lookup, the credential is MIT-MAGIC-COOKIE-1 with 16 data bytes and the
\* hello's length fields say 18 and 16.
C5_ShapeCheck ==
    (LookupDone /\ ~noauth) =>
        /\ (authName # MitName \/ Len(authData) # 16) =>
              /\ pc = "done"
              /\ outcome = "UnsupportedAuthProtocol"
              /\ errArg = authName
              /\ sent = <<>> /\ wire = <<>>
        /\ (sent # <<>> \/ HelloWritten) =>
              /\ authName = MitName /\ Len(authData) = 16
              /\ Len(sent) >= 10 => Get16(sent, 6) = 18 /\ Get16(sent, 8) = 16

C5_Witness ==
    /\ outcome = "UnsupportedAuthProtocol"
    /\ ~noauth
    /\ authName = MitName /\ Len(authData) = 17
    /\ sent = <<>>

\* ------------------------------------------------------------------- C6
\* C6: when connect has failed after the transport was opened, the
\* transport is no longer open.
C6_FailureClosesTransport ==
    (pc = "done" /\ TransportOpened
       /\ outcome \in {"UnsupportedAuthProtocol", "TransportFailed",
                       "VersionMismatch", "ConnectionRefused"}) =>
        c.conn = "closed"

\* ------------------------------------------------------------------- C7
\* C7: when connect has returned an error, the Conn's host, display and
\* default screen are what they were before the call.
C7_FailureLeavesFields ==
    (pc = "done" /\ outcome \notin {"Accepted", "Panic"}) =>
        /\ c.host = ZeroConn.host
        /\ c.display = ZeroConn.display
        /\ c.defaultScreen = ZeroConn.defaultScreen

\* ------------------------------------------------------------------- C8
\* C8: after a successful connect with a non-empty screen list, the
\* default screen is a valid index into it.
C8_DefaultScreenInRange ==
    (outcome = "Accepted" /\ c.roots >= 1) =>
        (0 <= c.defaultScreen /\ c.defaultScreen < c.roots)

\* ------------------------------------------------------------------- C9
\* C9: once the display string has parsed, exactly one transport connect
\* has been issued: to socketPath:display on a local socket exactly when a
\* socket path is set, to host:(6000+display) on the given or default
\* stream protocol exactly when the host is non-empty and no socket path
\* is set, and to the conventional local path exactly when neither is set.
C9_DialSelection ==
    (pc # "dial" /\ outcome \notin {"EmptyDisplaySpec", "MalformedDisplaySpec"}
       /\ ~(outcome = "Panic" /\ dials = <<>>)) =>
        /\ Len(dials) = 1
        /\ LET d == <<dials[1][1], dials[1][2]>>
               toSocket == d = <<UnixName, socket \o <<":">> \o c.display>>
               toHost == d = <<IF protocol = <<>> THEN TcpName ELSE protocol,
                               c.host \o <<":">> \o Itoa(6000 + dispnum)>>
               toDefault == d = <<UnixName, UnixDir \o c.display>>
           IN /\ toSocket <=> socket # <<>>
              /\ toHost <=> (socket = <<>> /\ c.host # <<>>)
              /\ toDefault <=> (socket = <<>> /\ c.host = <<>>)
              /\ socket # <<>> <=> (Raw[1] = "/")
              /\ socket # <<>> => socket = HostPart

C9_Witness ==
    /\ arg = <<"t", "c", "p", "/", ":", "0">>
    /\ protocol = TcpName
    /\ Len(dials) = 1
    /\ dials[1][2] = UnixDir \o <<"0">>

\* ------------------------------------------------------------------ C10
\* C10: for a non-empty display string the parser ends in a parsed spec
\* or a parse error, never in an abort; and when the host part holds no
\* '/' while the display part does, the result is MalformedDisplaySpec
\* with host equal to the whole host part.
C10_SlashOnlyInHostPart ==
    (pc # "dial" /\ Len(Raw) > 0) =>
        /\ ~(outcome = "Panic" /\ dials = <<>>)
        /\ (Has(Raw, ":") /\ ~Has(HostPart, "/") /\ Has(DisplayPart, "/")) =>
              (outcome = "MalformedDisplaySpec" /\ c.host = HostPart)

\* ------------------------------------------------------------------ C11
\* The display-number and screen-number strings of the display part, split
\* at its last '.'.
NumberStr ==
    IF Has(DisplayPart, ".")
    THEN SubSeq(DisplayPart, 1, LastIndex(DisplayPart, "."))
    ELSE DisplayPart

ScreenStr ==
    IF Has(DisplayPart, ".")
    THEN SubSeq(DisplayPart, LastIndex(DisplayPart, ".") + 2, Len(DisplayPart))
    ELSE <<>>

IsInteger(s) ==
    LET digits == IF Len(s) > 0 /\ s[1] \in {"+", "-"} THEN Tail(s) ELSE s
    IN Len(digits) > 0 /\ \A i \in 1..Len(digits) : digits[i] \in DOMAIN DigitVal

IsNonNegative(s) ==
    IsInteger(s) /\ (s[1] = "-" => \A i \in 2..Len(s) : s[i] = "0")

ShouldBeMalformed ==
    \/ ~Has(Raw, ":")
    \/ DisplayPart = <<>>
    \/ ~IsNonNegative(NumberStr)
    \/ (ScreenStr # <<>> /\ ~IsInteger(ScreenStr))

AfterDial(a) == pc = "auth" /\ arg = a

\* C11: a non-empty display string without ':', with an empty display
\* part, with a display-number string that is not an integer >= 0 or with
\* a screen-number string that is not an integer is MalformedDisplaySpec
\* and nothing is dialed; every other string is split at the last ':' and
\* the last '.' of the display part; the documented forms give the
\* documented fields; no string that fails to parse is dialed.
C11_ParseTable ==
    (pc # "dial" /\ Raw # <<>>) =>
        /\ ShouldBeMalformed => (outcome = "MalformedDisplaySpec" /\ dials = <<>>)
        /\ ~ShouldBeMalformed =>
              /\ Len(dials) = 1
              /\ c.display = NumberStr
              /\ dispnum = Atoi(NumberStr).val
        /\ (Len(trace) > 0 /\ trace[Len(trace)] = "parse") => dials = <<>>
        /\ AfterDial(<<":", "0">>) =>
              (dispnum = 0 /\ c.defaultScreen = 0 /\ c.host = <<>> /\ socket = <<>>)
        /\ AfterDial(<<":", "1", ".", "2">>) =>
              (dispnum = 1 /\ c.defaultScreen = 2)
        /\ AfterDial(<<"h", "o", "s", "t", ":", "0">>) =>
              (c.host = <<"h", "o", "s", "t">> /\ dispnum = 0 /\ protocol = <<>>)
        /\ AfterDial(<<"u", "n", "i", "x", "/", "h", "o", "s", "t", ":", "0">>) =>
              (protocol = UnixName /\ c.host = <<"h", "o", "s", "t">> /\ dispnum = 0)
        /\ AfterDial(<<"/", "t", "m", "p", "/", "s", ":", "0">>) =>
              (socket = <<"/", "t", "m", "p", "/", "s">> /\ dispnum = 0)

\* The same statement, leaving out the strings on which dial aborts.
C11_ParseTableUnlessAbort ==
    ~(outcome = "Panic" /\ dials = <<>>) => C11_ParseTable

\* ------------------------------------------------------------------ C12
\* The first multiple of 4 at or after n.
AlignUp(n) == CHOOSE m \in n..(n + 3) : m % 4 = 0

MaxPadArg == 9

HelloBuilt == \E i \in 1..Len(trace) : trace[i] = "write"

PadArgs == {Len(authName), Len(authData)} \cup 0..MaxPadArg

C14_OneWarning ==
    LookupDone => stderr = (IF noauth THEN 1 ELSE 0)

\* C14 amended: a connect call whose authority lookup failed has made
\* exactly two writes to the warning channel (the failure, then the notice
\* that it goes on without authority info), one whose lookup succeeded
\* none, and none is made before the lookup.
C14_TwoWarningWrites ==
    /\ LookupDone => stderr = (IF noauth THEN 2 ELSE 0)
    /\ ~LookupDone => stderr = 0

C14_Witness ==
    /\ LookupDone /\ noauth
    /\ pc = "done" /\ outcome = "Accepted"
    /\ stderr = 2

\* ------------------------------------------------------------------ C15
Count(step) == Cardinality({i \in 1..Len(trace) : trace[i] = step})

\* The fields the display string s designates, split at its last ':'.
HostPartOf(s) == SubSeq(s, 1, LastIndex(s, ":"))

DisplayPartOf(s) == SubSeq(s, LastIndex(s, ":") + 2, Len(s))

NumberStrOf(s) ==
    IF Has(DisplayPartOf(s), ".")
    THEN SubSeq(DisplayPartOf(s), 1, LastIndex(DisplayPartOf(s), "."))
    ELSE DisplayPartOf(s)

\* What connect shows of the string s it parsed: the string in its parse
\* and connect errors, the display-number string and the host part once
\* the string has parsed.
ParsedFrom(s) ==
    /\ outcome \in {"MalformedDisplaySpec", "ConnectError"} => errArg = s
    /\ Len(dials) = 1 =>
          /\ c.display = NumberStrOf(s)
          /\ (socket = HostPartOf(s) \/ protocol \o <<"/">> \o c.host = HostPartOf(s)
                \/ c.host = HostPartOf(s))

\* C15: a non-empty display argument is the string that is parsed and the
\* environment is not read; with an empty argument the environment is read
\* once and its value parsed; when that is empty too connect fails with
\* EmptyDisplaySpec and nothing is dialed.
C15_EnvironmentFallback ==
    pc # "dial" =>
        /\ arg # <<>> => (Count("getenv") = 0 /\ ParsedFrom(arg)
                            /\ outcome # "EmptyDisplaySpec")
        /\ arg = <<>> => (Count("getenv") = 1 /\ ParsedFrom(env))
        /\ (arg = <<>> /\ env = <<>>) =>
              (outcome = "EmptyDisplaySpec" /\ dials = <<>> /\ pc = "done")
        /\ outcome = "EmptyDisplaySpec" => (arg = <<>> /\ env = <<>>)

C15_Witness ==
    /\ arg = <<"h", ":", "0">> /\ env = <<":", "1">>
    /\ Len(dials) = 1 /\ c.display = <<"0">> /\ c.host = <<"h">>

\* ------------------------------------------------------------------ C16
StepOrder == <<"parse", "dial", "lookup", "write", "readHeader", "readBody",
               "decode">>

\* The steps taken, without the environment read that may precede them.
Steps == IF Len(trace) > 0 /\ trace[1] = "getenv" THEN Tail(trace) ELSE trace

\* C16: the steps taken so far are an initial part of parse, dial, lookup,
\* write, read header, read body, decode (so each happened at most once and
\* in that order); the authority was consulted only with the transport
\* open, bytes were read only after the hello was written, the body was
\* read only after a full header with version 11.0, and the decoder ran
\* only after the full body was read.
C16_StepOrder ==
    /\ Len(Steps) <= Len(StepOrder)
    /\ Steps = SubSeq(StepOrder, 1, Len(Steps))
    /\ Count("lookup") > 0 => (TransportOpened /\ c.conn = "open")
    /\ (wire # <<>> \/ Count("readHeader") > 0) => (HelloWritten /\ Len(sent) >= 12)
    /\ (Count("readBody") > 0 \/ Len(wire) > 8) => (HeaderDelivered /\ Version11)
    /\ (Count("decode") > 0 \/ decoded # <<>>) => (BodyDelivered /\ Count("readBody") = 1)

C16_Witness ==
    /\ Steps = StepOrder
    /\ outcome = "Accepted"
    /\ BodyUnits = 63

\* ------------------------------------------------------------------ C17
LastStep == IF trace = <<>> THEN "" ELSE trace[Len(trace)]

\* C17: at most one transport connect, one hello write and one authority
\* lookup have been made; and once connect has failed it has returned, the
\* failing step being the last one taken: nothing was written or read
\* after a connect error or an unsupported credential, nothing read after
\* a write error, nothing read past the header after a version mismatch.
C17_NoRetry ==
    /\ Len(dials) <= 1 /\ Count("dial") = Len(dials)
    /\ Count("write") <= 1 /\ Count("lookup") <= 1
    /\ Count("readHeader") <= 1 /\ Count("readBody") <= 1
    /\ outcome \notin {"", "Accepted"} =>
          /\ pc = "done"
          /\ outcome = "ConnectError" =>
                (LastStep = "dial" /\ ~TransportOpened /\ sent = <<>> /\ wire = <<>>)
          /\ outcome = "UnsupportedAuthProtocol" =>
                (LastStep = "lookup" /\ sent = <<>> /\ wire = <<>>)
          /\ (outcome = "TransportFailed" /\ errArg = "write") =>
                (LastStep = "write" /\ wire = <<>>)
          /\ (outcome = "TransportFailed" /\ errArg = "header") =>
                (LastStep = "readHeader" /\ Len(wire) < 8)
          /\ outcome = "VersionMismatch" =>
                (LastStep = "readHeader" /\ Len(wire) = 8)
          /\ (outcome = "TransportFailed" /\ errArg = "body") =>
                (LastStep = "readBody" /\ Len(wire) < 8 + 4 * BodyUnits)
          /\ outcome = "ConnectionRefused" =>
                (LastStep = "readBody" /\ Len(wire) = 8 + 4 * BodyUnits)

C17_Witness ==
    /\ outcome = "TransportFailed" /\ errArg = "write"
    /\ pc = "done"
    /\ Len(dials) = 1 /\ wire = <<>> /\ Len(sent) = 47

\* ------------------------------------------------------------------ C18
Outcomes == {"EmptyDisplaySpec", "MalformedDisplaySpec", "ConnectError",
             "UnsupportedAuthProtocol", "TransportFailed", "VersionMismatch",
             "ConnectionRefused", "Accepted"}

\* C18: a connect call that has ended has ended in exactly one of the
\* eight outcomes EmptyDisplaySpec, MalformedDisplaySpec, ConnectError,
\* UnsupportedAuthProtocol, TransportFailed, VersionMismatch,
\* ConnectionRefused and Accepted, and a call with no step left to take
\* has ended.
C18_EndsInOneOutcome ==
    /\ pc = "done" => outcome \in Outcomes
    /\ pc # "done" => (outcome = "" /\ ENABLED Next)

\* ------------------------------------------------------------------ C19
\* C19: ConnectionRefused is reported only after the body read, with all
\* bodyUnits*4 bytes delivered; a version 11.0 response whose body ends
\* short ends in TransportFailed whatever its status code; a header read
\* that delivers fewer than 8 bytes ends in TransportFailed and no body
\* read follows.
C19_RefusedOnlyAfterBody ==
    /\ outcome = "ConnectionRefused" =>
          (Count("readBody") = 1 /\ BodyDelivered /\ Version11 /\ StatusCode = 0)
    /\ (Count("readBody") = 1 /\ HeaderDelivered /\ Len(wire) < 8 + 4 * BodyUnits) =>
          (pc = "done" /\ outcome = "TransportFailed" /\ errArg = "body")
    /\ (Count("readHeader") = 1 /\ ~HeaderDelivered) =>
          /\ pc = "done" /\ outcome = "TransportFailed" /\ errArg = "header"
          /\ Count("readBody") = 0

C19_Witness ==
    /\ outcome = "TransportFailed" /\ errArg = "body"
    /\ HeaderDelivered /\ Version11 /\ StatusCode = 0
    /\ BodyUnits = 63 /\ Len(wire) = 8 + 251

\* ------------------------------------------------------------------ C20
\* C20: the local-socket addresses dialed end in the parsed display number
\* in canonical decimal form, the number the network path adds to 6000.
C20_SameDisplayNumber ==
    Len(dials) = 1 =>
        /\ socket # <<>> =>
              dials[1][2] = socket \o <<":">> \o Itoa(dispnum)
        /\ (socket = <<>> /\ c.host = <<>>) =>
              dials[1][2] = UnixDir \o Itoa(dispnum)
        /\ (socket = <<>> /\ c.host # <<>>) =>
              dials[1][2] = c.host \o <<":">> \o Itoa(6000 + dispnum)

====
